---- MODULE Spec2Model ----
(***************************************************************************)
(* State-machine model of the ActionTab prediction server:                 *)
(*   src/python/server.py  (the /predict and /health handlers)             *)
(*   src/python/model.py   (ActionPredictor: predict, _mock_predict,       *)
(*                          _real_predict, _parse_response)                *)
(*   src/python/schema.py  (PredictionResponse)                            *)
(*                                                                         *)
(* Conventions.  Floats (confidence, JSON numbers) are integers counted in *)
(* hundredths: 0.5 is 50, 0.95 is 95, the JSON number 1.5 is 150.  A       *)
(* Python str that the code converts with int()/float()/str() is a         *)
(* sequence of one-character strings, so that the conversion is computed.  *)
(* Python's None in a str-valued place is the one-element sequence PyNone. *)
(***************************************************************************)
EXTENDS Integers, Sequences, FiniteSets, TLC

VARIABLES model_path, model, req, fs

vars == <<model_path, model, req, fs>>

(***************************************************************************)
(* Bounds of the model.                                                    *)
(***************************************************************************)
NumReq == 2
MaxPaths == 2
MaxHist == 7

(***************************************************************************)
(* Program constants.                                                      *)
(***************************************************************************)
OFFSET_MAX == 150
CLICK_CONF_LO == 30
CLICK_CONF_HI == 95
TEXT_CONF_LO == 40
TEXT_CONF_HI == 90
DEFAULT_CONFIDENCE == 50
HISTORY_TAIL == 5

DEFAULT_MODEL == "mlx-community/Qwen2.5-VL-7B-Instruct-8bit"

MOCK_TEXT_PREDICTIONS ==
    << <<"Hello, world!">>, <<"Thank you for your message.">>, <<"Sounds good!">>,
       <<"npm install">>, <<"git commit -m 'update'">> >>

PyNone == <<"<None>">>

Max(a, b) == IF a >= b THEN a ELSE b

Min(a, b) == IF a <= b THEN a ELSE b

(***************************************************************************)
(* JSON values as json.loads returns them.  n is in hundredths for "num"   *)
(* and 0/1 for "bool"; s is the character sequence of a "str".             *)
(***************************************************************************)
Absent == [t |-> "absent", n |-> 0, s |-> <<>>]

Null == [t |-> "null", n |-> 0, s |-> <<>>]

Num(h) == [t |-> "num", n |-> h, s |-> <<>>]

Str(chars) == [t |-> "str", n |-> 0, s |-> chars]

Bool(b) == [t |-> "bool", n |-> IF b THEN 1 ELSE 0, s |-> <<>>]

List == [t |-> "list", n |-> 0, s |-> <<>>]

IntVal(i) == Num(i * 100)

S_click == <<"c", "l", "i", "c", "k">>

S_text == <<"t", "e", "x", "t">>

S_none == <<"n", "o", "n", "e">>

S_scroll == <<"s", "c", "r", "o", "l", "l">>

(***************************************************************************)
(* Python's int(), float() and str() on those values.  The result is       *)
(* [exc, val]: exc = "" when the conversion returns val, otherwise the     *)
(* name of the exception it raises.                                        *)
(***************************************************************************)
DigitOf ==
    ("0" :> 0) @@ ("1" :> 1) @@ ("2" :> 2) @@ ("3" :> 3) @@ ("4" :> 4) @@
    ("5" :> 5) @@ ("6" :> 6) @@ ("7" :> 7) @@ ("8" :> 8) @@ ("9" :> 9)

IsDigits(s) == \A i \in 1..Len(s) : s[i] \in DOMAIN DigitOf

RECURSIVE DigitsValue(_)
DigitsValue(s) ==
    IF s = <<>> THEN 0
    ELSE DigitsValue(SubSeq(s, 1, Len(s) - 1)) * 10 + DigitOf[s[Len(s)]]

Returns(v) == [exc |-> "", val |-> v]

Raises(e) == [exc |-> e, val |-> 0]

Unsigned(s) == IF s # <<>> /\ s[1] \in {"-", "+"} THEN Tail(s) ELSE s

Sign(s) == IF s # <<>> /\ s[1] = "-" THEN -1 ELSE 1

\* int("12") = 12, int("-3") = -3, int("1.5") and int("ab") raise ValueError.
IntOfStr(s) ==
    LET body == Unsigned(s)
    IN  IF body # <<>> /\ IsDigits(body)
        THEN Returns(Sign(s) * DigitsValue(body))
        ELSE Raises("ValueError")

\* float("0.7") = 0.7, float("1") = 1.0, float("1.") = 1.0, float(".5") = 0.5;
\* anything else over the modelled alphabet raises ValueError.
FloatOfStr(s) ==
    LET body == Unsigned(s)
        dots == {i \in 1..Len(body) : body[i] = "."}
        dot  == IF dots = {} THEN Len(body) + 1 ELSE CHOOSE i \in dots : \A j \in dots : i <= j
        ip   == SubSeq(body, 1, dot - 1)
        fp   == SubSeq(body, dot + 1, Len(body))
        frac == IF fp = <<>> THEN 0
                ELSE IF Len(fp) = 1 THEN DigitOf[fp[1]] * 10
                ELSE DigitOf[fp[1]] * 10 + DigitOf[fp[2]]
    IN  IF IsDigits(ip) /\ IsDigits(fp) /\ (ip # <<>> \/ fp # <<>>)
        THEN Returns(Sign(s) * (DigitsValue(ip) * 100 + frac))
        ELSE Raises("ValueError")

\* Truncation toward zero, as int() does on a float.
Trunc(h) == IF h >= 0 THEN h \div 100 ELSE -((-h) \div 100)

PyIntRound(v) ==
    CASE v.t = "num"  -> Returns((v.n + 50) \div 100)
      [] v.t = "bool" -> Returns(v.n)
      [] v.t = "str"  -> IntOfStr(v.s)
      [] OTHER        -> Raises("TypeError")

PyInt(v) ==
    CASE v.t = "num"  -> Returns(Trunc(v.n))
      [] v.t = "bool" -> Returns(v.n)
      [] v.t = "str"  -> IntOfStr(v.s)
      [] OTHER        -> Raises("TypeError")

PyFloat(v) ==
    CASE v.t = "num"  -> Returns(v.n)
      [] v.t = "bool" -> Returns(v.n * 100)
      [] v.t = "str"  -> FloatOfStr(v.s)
      [] OTHER        -> Raises("TypeError")

\* str() of the values the text field is drawn from.
PyStr(v) ==
    CASE v.t = "str"  -> v.s
      [] v.t = "null" -> <<"N", "o", "n", "e">>
      [] v.t = "bool" -> IF v.n = 1 THEN <<"T", "r", "u", "e">> ELSE <<"F", "a", "l", "s", "e">>
      [] OTHER        -> <<"?">>

(***************************************************************************)
(* PredictionResponse (schema.py).                                         *)
(***************************************************************************)
PredictionResponse(at, x, y, text, confidence) ==
    [action_type |-> at, x |-> x, y |-> y, text |-> text, confidence |-> confidence]

NoResponse == PredictionResponse("", 0, 0, PyNone, 0)

\* The "none" fallback built at model.py 182-188, 230-236 and 241-247.
NoneResponse(cursor_x, cursor_y) ==
    PredictionResponse("none", cursor_x, cursor_y, PyNone, 0)

(***************************************************************************)
(* The model's raw output text.  It is a sequence of tokens: "{" and "}"   *)
(* are braces, "j" is a run of non-brace text that is not JSON, and "F" is *)
(* the text of the comma-separated members given by `fields` (a function   *)
(* from member name to JSON value, Absent for a member that is not there). *)
(***************************************************************************)
Keys == {"action_type", "confidence", "x", "y", "text"}

EmptyDict == [k \in Keys |-> Absent]

Text(shape, fields) == [isstr |-> TRUE, shape |-> shape, fields |-> fields]

NotAString == [isstr |-> FALSE, shape |-> <<>>, fields |-> EmptyDict]

NoOutput == [isstr |-> FALSE, shape |-> <<"-">>, fields |-> EmptyDict]

\* re.search(r'\{[^{}]*\}', response): the leftmost "{" whose next brace is "}".
ReSearch(toks) ==
    LET Closes(i) == {j \in (i + 1)..Len(toks) :
                        /\ toks[j] = "}"
                        /\ \A k \in (i + 1)..(j - 1) : toks[k] \notin {"{", "}"}}
        Starts == {i \in 1..Len(toks) : toks[i] = "{" /\ Closes(i) # {}}
    IN  IF Starts = {} THEN [found |-> FALSE, content |-> <<>>]
        ELSE LET i == CHOOSE a \in Starts : \A b \in Starts : a <= b
                 j == CHOOSE c \in Closes(i) : TRUE
             IN  [found |-> TRUE, content |-> SubSeq(toks, i + 1, j - 1)]

\* json.loads of the matched span: an object with the members of `fields`, the
\* empty object, or JSONDecodeError.
JsonLoads(content, fields) ==
    LET NotF(t) == t # "F"
        body == IF fields = EmptyDict THEN SelectSeq(content, NotF) ELSE content
    IN  IF body = <<>> THEN [exc |-> "", val |-> EmptyDict]
        ELSE IF body = <<"F">> THEN [exc |-> "", val |-> fields]
        ELSE [exc |-> "JSONDecodeError", val |-> EmptyDict]

\* dict.get(key, default)
Get(parsed, key, default) == IF parsed[key].t = "absent" THEN default ELSE parsed[key]

(***************************************************************************)
(* ActionPredictor._parse_response.  The result is [exc, resp]: exc = ""   *)
(* when the function returns resp, otherwise the exception that leaves it. *)
(***************************************************************************)
Returned(resp) == [exc |-> "", resp |-> resp]

\* except (json.JSONDecodeError, ValueError): return the "none" fallback;
\* any other exception propagates to the caller.
ParseExcept(exc, cursor_x, cursor_y) ==
    IF exc \in {"JSONDecodeError", "ValueError"}
    THEN Returned(NoneResponse(cursor_x, cursor_y))
    ELSE [exc |-> exc, resp |-> NoResponse]

OtherActionLeak(cursor_x, cursor_y, confidence) ==
    PredictionResponse("none", cursor_x, cursor_y, PyNone, confidence)

\* The else branch of the dispatch on action_type.
OtherAction(cursor_x, cursor_y, confidence) ==
    NoneResponse(cursor_x, cursor_y)

ParseResponse(response, cursor_x, cursor_y) ==
    IF ~response.isstr THEN ParseExcept("TypeError", cursor_x, cursor_y)
    ELSE
    LET json_match == ReSearch(response.shape)
    IN  IF ~json_match.found THEN ParseExcept("ValueError", cursor_x, cursor_y)
        ELSE
        LET loaded == JsonLoads(json_match.content, response.fields)
        IN  IF loaded.exc # "" THEN ParseExcept(loaded.exc, cursor_x, cursor_y)
            ELSE
            LET parsed      == loaded.val
                action_type == Get(parsed, "action_type", Str(S_none))
                confidence  == PyFloat(Get(parsed, "confidence", Num(DEFAULT_CONFIDENCE)))
                x           == PyInt(Get(parsed, "x", IntVal(cursor_x)))
                y           == PyInt(Get(parsed, "y", IntVal(cursor_y)))
            IN  IF confidence.exc # "" THEN ParseExcept(confidence.exc, cursor_x, cursor_y)
                ELSE IF action_type = Str(S_click)
                THEN IF x.exc # "" THEN ParseExcept(x.exc, cursor_x, cursor_y)
                     ELSE IF y.exc # "" THEN ParseExcept(y.exc, cursor_x, cursor_y)
                     ELSE Returned(PredictionResponse("click", x.val, y.val, PyNone,
                                                      confidence.val))
                ELSE IF action_type = Str(S_text)
                THEN Returned(PredictionResponse("text", cursor_x, cursor_y,
                                                 PyStr(Get(parsed, "text", Str(<<>>))),
                                                 confidence.val))
                ELSE Returned(OtherAction(cursor_x, cursor_y, confidence.val))

(***************************************************************************)
(* ActionPredictor._mock_predict.  The random draws are the parameters:    *)
(* pick indexes ["click", "text", "click", "click"], offset_x and offset_y *)
(* are the randint results, click_conf and text_conf the uniform results   *)
(* and phrase indexes MOCK_TEXT_PREDICTIONS.  A mock phrase is kept whole, *)
(* as a one-piece sequence: nothing converts it.                           *)
(***************************************************************************)
MOCK_CHOICES == <<"click", "text", "click", "click">>

ClampCoordRaw(v) == v

\* max(0, cursor + offset)
ClampCoord(v) == Max(0, v)

MockPredict(cursor_x, cursor_y, pick, offset_x, offset_y, click_conf, text_conf, phrase) ==
    IF MOCK_CHOICES[pick] = "click"
    THEN PredictionResponse("click", ClampCoord(cursor_x + offset_x),
                            ClampCoord(cursor_y + offset_y), PyNone, click_conf)
    ELSE PredictionResponse("text", cursor_x, cursor_y,
                            MOCK_TEXT_PREDICTIONS[phrase], text_conf)

(***************************************************************************)
(* The prompt: PROMPT_TEMPLATE.format(cursor_x, cursor_y, history).  The   *)
(* template is fixed, so a prompt is the three values it embeds.           *)
(***************************************************************************)
HistoryHead(history) == SubSeq(history, 1, Min(HISTORY_TAIL, Len(history)))

\* history[-5:]
HistoryTail(history) ==
    SubSeq(history, Max(0, Len(history) - HISTORY_TAIL) + 1, Len(history))

\* ", ".join(items)
RECURSIVE Join(_)
Join(items) ==
    IF items = <<>> THEN ""
    ELSE IF Len(items) = 1 THEN items[1]
    ELSE items[1] \o ", " \o Join(Tail(items))

\* ", ".join(history[-5:]) if history else "none"
HistoryStr(history) ==
    IF history # <<>> THEN Join(HistoryTail(history)) ELSE "none"

BuildPrompt(cursor_x, cursor_y, history) ==
    [built |-> TRUE, cursor_x |-> cursor_x, cursor_y |-> cursor_y,
     history |-> HistoryStr(history)]

NoPrompt == [built |-> FALSE, cursor_x |-> 0, cursor_y |-> 0, history |-> ""]

(***************************************************************************)
(* Images and the file system.  Image bytes are named: "" is the empty     *)
(* buffer, "garbage" is no image, "truncated" has a valid header and       *)
(* damaged data (Image.open succeeds, image.save fails), "pngA" and "pngB" *)
(* are two sound screenshots.                                              *)
(***************************************************************************)
Requests == 1..NumReq

Paths == 1..MaxPaths

NoFile == [exists |-> FALSE, owner |-> 0, data |-> <<>>]

B64Decode(shot) == IF shot.b64 THEN shot.bytes ELSE ""

CanOpen(img_bytes) == img_bytes \in {"truncated", "pngA", "pngB"}

CanSave(image) == image \in {"pngA", "pngB"}

\* The PNG encoding image.save writes.
Encode(image) == <<"PNG", image>>

MkstempNamesFixed(files) == {1}

\* tempfile.mkstemp opens with O_EXCL: the name it returns names no existing file.
MkstempNames(files) == {p \in Paths : ~files[p].exists}

UnlinkSkipped(files, path) == files

\* if temp_path and os.path.exists(temp_path): os.unlink(temp_path)
Unlink(files, path) ==
    IF path # 0 /\ files[path].exists THEN [files EXCEPT ![path] = NoFile] ELSE files

(***************************************************************************)
(* One request in flight: the locals of server.predict and of              *)
(* ActionPredictor.predict / _real_predict, and its position pc.           *)
(*   exc     the exception propagating to the caller ("" for none)         *)
(*   caught  the exception the handler at model.py 177 logged ("" for none)*)
(*   events  what this call has done so far, in order                      *)
(***************************************************************************)
Idle ==
    [pc |-> "idle", img_bytes |-> "", history |-> <<>>, cursor_x |-> 0, cursor_y |-> 0,
     image |-> "", temp_path |-> 0, prompt |-> NoPrompt, output |-> NoOutput,
     response |-> NoResponse, exc |-> "", caught |-> "", events |-> <<>>]

MockModeByPath == model_path = "None"

\* if self.model is None
MockMode == model = "None"

CaughtNarrow(e) == e \in {"ValueError", "JSONDecodeError"}

\* except Exception: every exception the pipeline can raise is an Exception.
Caught(e) == TRUE

ExceptRetry(rec, e) ==
    IF Len(SelectSeq(rec.events, LAMBDA ev : ev = "generate")) = 1
    THEN [rec EXCEPT !.pc = "generate", !.caught = e]
    ELSE [rec EXCEPT !.pc = "finally", !.caught = e,
                     !.response = NoneResponse(rec.cursor_x, rec.cursor_y)]

\* The handler at model.py 177-188, entered from the try block with exception e.
Except(rec, e) ==
    IF Caught(e)
    THEN [rec EXCEPT !.pc = "finally", !.caught = e,
                     !.response = NoneResponse(rec.cursor_x, rec.cursor_y)]
    ELSE [rec EXCEPT !.pc = "finally", !.exc = e]

Event(rec, ev) == [rec EXCEPT !.events = Append(@, ev)]

(***************************************************************************)
(* Construction (server.lifespan, ActionPredictor.__init__, _load_model).  *)
(***************************************************************************)
ModelPaths == {"None", "", DEFAULT_MODEL}

\* self.model after __init__: loaded only if a path was given and load() succeeded.
Constructed(path, load_ok) ==
    IF path \notin {"None", ""} /\ load_ok THEN "loaded" ELSE "None"

BackendState ==
    IF model # "None" THEN "Ready"
    ELSE IF model_path \in {"None", ""} THEN "Unconfigured"
    ELSE "LoadFailed"

Init ==
    /\ model_path \in ModelPaths
    /\ \E load_ok \in BOOLEAN : model = Constructed(model_path, load_ok)
    /\ req = [r \in Requests |-> Idle]
    /\ fs = [p \in Paths |-> NoFile]

(***************************************************************************)
(* Actions.  D gives the sets the inputs of a specification are drawn from.*)
(***************************************************************************)
Same == UNCHANGED <<model_path, model>>

\* server.predict 70-82 and ActionPredictor.predict 94-97.
Request(r, D) ==
    /\ req[r].pc = "idle"
    /\ \E shot \in D.shots, h \in D.hists, c \in D.cursors :
         req' = [req EXCEPT ![r] =
                   [Idle EXCEPT !.pc = IF MockMode THEN "mock" ELSE "open",
                                !.img_bytes = B64Decode(shot),
                                !.history = h, !.cursor_x = c[1], !.cursor_y = c[2]]]
    /\ UNCHANGED fs /\ Same

\* _mock_predict, 99-121.
Mock(r, D) ==
    /\ req[r].pc = "mock"
    /\ \E pick \in 1..Len(MOCK_CHOICES), ox \in D.offsets, oy \in D.offsets,
          cc \in D.click_confs, tc \in D.text_confs,
          ph \in 1..Len(MOCK_TEXT_PREDICTIONS) :
         req' = [req EXCEPT ![r] =
                   Event([req[r] EXCEPT
                            !.pc = "done",
                            !.response = MockPredict(req[r].cursor_x, req[r].cursor_y,
                                                     pick, ox, oy, cc, tc, ph)], "mock")]
    /\ UNCHANGED fs /\ Same

\* Image.open(io.BytesIO(img_bytes)), 136.
ImageOpen(r) ==
    /\ req[r].pc = "open"
    /\ req' = [req EXCEPT ![r] =
                 IF CanOpen(req[r].img_bytes)
                 THEN Event([req[r] EXCEPT !.pc = "mkstemp", !.image = req[r].img_bytes],
                            "open")
                 ELSE Except(req[r], "UnidentifiedImageError")]
    /\ UNCHANGED fs /\ Same

\* tempfile.mkstemp(suffix=".png"); os.close(temp_fd), 137-138.
Mkstemp(r) ==
    /\ req[r].pc = "mkstemp"
    /\ \/ \E p \in MkstempNames(fs) :
            /\ fs' = [fs EXCEPT ![p] = [exists |-> TRUE, owner |-> r, data |-> <<>>]]
            /\ req' = [req EXCEPT ![r] =
                         Event([@ EXCEPT !.pc = "save", !.temp_path = p], "mkstemp")]
       \/ /\ req' = [req EXCEPT ![r] = Except(@, "OSError")]
          /\ UNCHANGED fs
    /\ Same

\* image.save(temp_path, "PNG"), 139.
ImageSave(r) ==
    /\ req[r].pc = "save"
    /\ \/ /\ CanSave(req[r].image)
          /\ fs' = [fs EXCEPT ![req[r].temp_path] =
                      [exists |-> TRUE,
                       owner  |-> IF @.exists THEN @.owner ELSE r,
                       data   |-> Encode(req[r].image)]]
          /\ req' = [req EXCEPT ![r] = Event([@ EXCEPT !.pc = "generate"], "save")]
       \/ /\ req' = [req EXCEPT ![r] = Except(@, "OSError")]
          /\ UNCHANGED fs
    /\ Same

\* The prompt build and the call of mlx_vlm.generate, 142-158.
GenerateCall(r) ==
    /\ req[r].pc = "generate"
    /\ req' = [req EXCEPT ![r] =
                 Event(Event([req[r] EXCEPT
                                !.pc = "generating",
                                !.prompt = BuildPrompt(req[r].cursor_x, req[r].cursor_y,
                                                       req[r].history)],
                             "prompt"), "generate")]
    /\ UNCHANGED fs /\ Same

ResultKinds == {"text", "generated_text", "str", "other"}

\* 161-169: result.text, result.generated_text, result itself, or str(result).
ExtractText(kind, payload) ==
    IF kind = "other" THEN Text(<<"j">>, EmptyDict) ELSE payload

\* generate returns or raises, 150-171.
GenerateReturn(r, D) ==
    /\ req[r].pc = "generating"
    /\ \/ \E kind \in D.kinds, payload \in D.outputs :
            /\ kind = "str" => payload.isstr
            /\ req' = [req EXCEPT ![r] =
                         Event([@ EXCEPT !.pc = "parse",
                                         !.output = ExtractText(kind, payload)],
                               "returned")]
       \/ req' = [req EXCEPT ![r] = Event(Except(@, "RuntimeError"), "raised")]
    /\ UNCHANGED fs /\ Same

\* parsed = self._parse_response(output, cursor_x, cursor_y); return parsed, 174-175.
Parse(r) ==
    /\ req[r].pc = "parse"
    /\ LET got == ParseResponse(req[r].output, req[r].cursor_x, req[r].cursor_y)
           rec == Event(req[r], "parse")
       IN  req' = [req EXCEPT ![r] =
                     IF got.exc = ""
                     THEN [rec EXCEPT !.pc = "finally", !.response = got.resp]
                     ELSE Except(rec, got.exc)]
    /\ UNCHANGED fs /\ Same

\* The finally clause, 189-192, and the return (or re-raise) that follows it.
Finally(r) ==
    /\ req[r].pc = "finally"
    /\ fs' = Unlink(fs, req[r].temp_path)
    /\ req' = [req EXCEPT ![r] =
                 Event([req[r] EXCEPT !.pc = IF req[r].exc = "" THEN "done" ELSE "raised"],
                       IF fs' # fs THEN "unlink" ELSE "nounlink")]
    /\ Same

\* server.predict returns the prediction (or the framework reports the error).
Respond(r) ==
    /\ req[r].pc \in {"done", "raised"}
    /\ req' = [req EXCEPT ![r] = Idle]
    /\ UNCHANGED fs /\ Same

\* GET /health, server.py 54-57: the handler reads self.model and writes nothing.
HealthResponse == [status |-> "ok", mock_mode |-> MockMode]

Health ==
    /\ HealthResponse.mock_mode \in BOOLEAN
    /\ UNCHANGED vars

Step(D) ==
    \/ \E r \in D.reqs : Request(r, D)
    \/ \E r \in D.reqs : Mock(r, D)
    \/ \E r \in D.reqs : ImageOpen(r)
    \/ \E r \in D.reqs : Mkstemp(r)
    \/ \E r \in D.reqs : ImageSave(r)
    \/ \E r \in D.reqs : GenerateCall(r)
    \/ \E r \in D.reqs : GenerateReturn(r, D)
    \/ \E r \in D.reqs : Parse(r)
    \/ \E r \in D.reqs : Finally(r)
    \/ \E r \in D.reqs : Respond(r)
    \/ Health

(***************************************************************************)
(* Input domains.                                                          *)
(***************************************************************************)
Shot(bytes) == [b64 |-> TRUE, bytes |-> bytes]

BadBase64 == [b64 |-> FALSE, bytes |-> "pngA"]

Obj == <<"{", "F", "}">>

Fields(at, conf, x, y, text) ==
    [action_type |-> at, confidence |-> conf, x |-> x, y |-> y, text |-> text]

ActionTypes == {Absent, Str(S_click), Str(S_text), Str(S_none), Str(S_scroll), Null}

Confidences ==
    {Absent, Null, List, Num(-50), Num(0), Num(80), Num(100), Num(150),
     Str(<<"0", ".", "7">>), Str(<<"a", "b">>)}

Xs ==
    {Absent, Null, Num(10000), Num(150), Num(-250), Bool(TRUE),
     Str(<<"1", "2">>), Str(<<"1", ".", "5">>), Str(<<"a", "b">>)}

Ys == {Absent, Num(20000), Str(<<"-", "3">>), Str(<<"a", "b">>)}

Texts == {Absent, Str(<<"h", "i">>)}

AllFields ==
    {Fields(at, conf, x, y, text) :
        at \in ActionTypes, conf \in Confidences, x \in Xs, y \in Ys, text \in Texts}

GoodClick == Fields(Str(S_click), Num(80), Num(10000), Num(20000), Absent)

ScrollNullConf == Fields(Str(S_scroll), Null, Absent, Absent, Absent)

Shapes ==
    { <<>>, <<"j">>, <<"F">>, <<"{", "}">>, <<"{", "F">>, <<"F", "}">>, <<"}", "F", "{">>,
      <<"j", "{", "F", "}", "j">>, <<"{", "j", "}">>, <<"{", "F", "j", "}">>,
      <<"{", "F", "F", "}">>, <<"{", "{", "F", "}", "}">>, <<"{", "j", "}", "{", "F", "}">>,
      <<"{", "{", "}", "F", "}">> }

RichOutputs ==
    {Text(Obj, f) : f \in AllFields}
      \cup {Text(sh, f) : sh \in Shapes, f \in {GoodClick, EmptyDict}}
      \cup {NotAString}

FewOutputs == {Text(Obj, GoodClick), Text(Obj, ScrollNullConf), Text(<<"j">>, EmptyDict)}

RECURSIVE SeqsUpTo(_, _)
SeqsUpTo(S, n) ==
    IF n = 0 THEN {<<>>}
    ELSE LET shorter == SeqsUpTo(S, n - 1)
         IN  shorter \cup {Append(h, e) : h \in {g \in shorter : Len(g) = n - 1}, e \in S}

HistoryEntries == {"click", "a, b"}

\* Concurrent requests, few inputs.
DomServer ==
    [reqs |-> Requests,
     shots |-> {BadBase64, Shot("pngA"), Shot("pngB")},
     hists |-> {<<"click">>},
     cursors |-> {<<10, 20>>},
     outputs |-> {Text(Obj, GoodClick), Text(Obj, ScrollNullConf)},
     kinds |-> {"text", "str"},
     offsets |-> {-OFFSET_MAX},
     click_confs |-> {CLICK_CONF_LO},
     text_confs |-> {TEXT_CONF_HI}]

\* One request at a time, many model outputs, cursors and random draws.
DomPredict ==
    [reqs |-> {1},
     shots |-> {BadBase64, Shot("truncated"), Shot("pngA")},
     hists |-> {<<>>},
     cursors |-> {<<-200, 40>>, <<0, 0>>, <<100, -5>>},
     outputs |-> RichOutputs,
     kinds |-> ResultKinds,
     offsets |-> {-OFFSET_MAX, -1, 0, OFFSET_MAX},
     click_confs |-> {CLICK_CONF_LO, 60, CLICK_CONF_HI},
     text_confs |-> {TEXT_CONF_LO, TEXT_CONF_HI}]

\* One request at a time, many histories.
DomPrompt ==
    [reqs |-> {1},
     shots |-> {Shot("garbage"), Shot("pngA")},
     hists |-> SeqsUpTo(HistoryEntries, MaxHist),
     cursors |-> {<<10, 20>>, <<-3, 0>>},
     outputs |-> FewOutputs,
     kinds |-> ResultKinds,
     offsets |-> {0},
     click_confs |-> {CLICK_CONF_LO},
     text_confs |-> {TEXT_CONF_LO}]

Next == Step(DomServer)

Spec == Init /\ [][Next]_vars

NextPredict == Step(DomPredict)

SpecPredict == Init /\ [][NextPredict]_vars

NextPrompt == Step(DomPrompt)

SpecPrompt == Init /\ [][NextPrompt]_vars

(***************************************************************************)
(* Vocabulary of the properties.                                           *)
(***************************************************************************)
Has(r, ev) == \E i \in 1..Len(req[r].events) : req[r].events[i] = ev

Count(r, ev) == Cardinality({i \in 1..Len(req[r].events) : req[r].events[i] = ev})

\* Every ev of the trace comes after some occurrence of one of `firsts`.
After(r, ev, firsts) ==
    \A i \in 1..Len(req[r].events) :
        req[r].events[i] = ev => \E j \in 1..(i - 1) : req[r].events[j] \in firsts

\* The call has left the try block with its result (or its exception) fixed.
Settled(r) == req[r].pc \in {"finally", "done", "raised"}

IsNone(resp) == resp.action_type = "none" /\ resp.confidence = 0

\* The parser has run on a text holding a well-formed JSON object.
ParsedObject(r) ==
    /\ Settled(r) /\ Has(r, "parse")
    /\ req[r].output.isstr
    /\ ReSearch(req[r].output.shape).found
    /\ JsonLoads(ReSearch(req[r].output.shape).content, req[r].output.fields).exc = ""

ObjectOf(r) == JsonLoads(ReSearch(req[r].output.shape).content, req[r].output.fields).val

\* An exception left _parse_response (and was logged by the handler of _real_predict).
ParserRaised(r) == Has(r, "parse") /\ req[r].caught # ""

\* Literals, stated on the characters.
IsIntegerLiteral(s) ==
    /\ Len(s) >= 1
    /\ s[Len(s)] \in DOMAIN DigitOf
    /\ \A i \in 1..Len(s) : s[i] \in DOMAIN DigitOf \/ (i = 1 /\ s[1] \in {"-", "+"})

IsDecimalLiteral(s) ==
    /\ \E i \in 1..Len(s) : s[i] \in DOMAIN DigitOf
    /\ Cardinality({i \in 1..Len(s) : s[i] = "."}) <= 1
    /\ \A i \in 1..Len(s) :
          s[i] \in DOMAIN DigitOf \/ s[i] = "." \/ (i = 1 /\ s[1] \in {"-", "+"})

\* The value of a literal by place value: digit i counts 10^(position from the point).
RECURSIVE Pow10(_)
Pow10(k) == IF k = 0 THEN 1 ELSE 10 * Pow10(k - 1)

RECURSIVE SumOver(_, _)
SumOver(f, S) ==
    IF S = {} THEN 0 ELSE LET i == CHOOSE j \in S : TRUE IN f[i] + SumOver(f, S \ {i})

LiteralHundredths(s) ==
    LET digits == {i \in 1..Len(s) : s[i] \in DOMAIN DigitOf}
        points == {i \in 1..Len(s) : s[i] = "."}
        point  == IF points = {} THEN Len(s) + 1 ELSE CHOOSE i \in points : TRUE
        weight == [i \in digits |->
                     IF i < point THEN DigitOf[s[i]] * 100 * Pow10(point - 1 - i)
                     ELSE IF i - point <= 2 THEN DigitOf[s[i]] * Pow10(2 - (i - point))
                     ELSE 0]
        magnitude == SumOver(weight, digits)
    IN  IF s[1] = "-" THEN -magnitude ELSE magnitude

\* The integer k of the same sign as h with |k| <= |h|/100 < |k| + 1.
TowardZero(h) ==
    LET abs(n) == IF n >= 0 THEN n ELSE -n
        m == abs(h) \div 100 + 1
    IN  CHOOSE k \in (-m)..m :
            /\ k * h >= 0
            /\ abs(k) * 100 <= abs(h)
            /\ abs(h) < (abs(k) + 1) * 100

\* What int() makes of a coordinate member, and when it can.
IntConvertible(v) ==
    v.t \in {"absent", "num", "bool"} \/ (v.t = "str" /\ IsIntegerLiteral(v.s))

CoordinateOf(v, cursor) ==
    CASE v.t = "absent" -> cursor
      [] v.t = "num"    -> TowardZero(v.n)
      [] v.t = "bool"   -> v.n
      [] OTHER          -> LiteralHundredths(v.s) \div 100

\* What float() makes of the confidence member, and when it can.
FloatConvertible(v) ==
    v.t \in {"absent", "num", "bool"} \/ (v.t = "str" /\ IsDecimalLiteral(v.s))

ConfidenceOf(v) ==
    CASE v.t = "absent" -> DEFAULT_CONFIDENCE
      [] v.t = "num"    -> v.n
      [] v.t = "bool"   -> v.n * 100
      [] OTHER          -> LiteralHundredths(v.s)

(***************************************************************************)
(* C1.  With the backend Ready, predict never raises to its caller, it     *)
(* returns a click, text or none action, and every internal failure (the   *)
(* image cannot be opened or saved, the model call raises, the output is   *)
(* no text, holds no JSON object, holds malformed JSON, or holds a         *)
(* confidence that float() rejects) ends in none with confidence 0.0.      *)
(***************************************************************************)
PipelineFailed(r) ==
    \/ ~Has(r, "returned")
    \/ ~req[r].output.isstr
    \/ ~ReSearch(req[r].output.shape).found
    \/ JsonLoads(ReSearch(req[r].output.shape).content, req[r].output.fields).exc # ""
    \/ ~FloatConvertible(ObjectOf(r).confidence)

\* C1: no call is ever left by an exception, and a failed pipeline returns none with 0.0.
C1_NeverFailsOutward ==
    \A r \in Requests :
        /\ req[r].pc # "raised"
        /\ req[r].exc = ""
        /\ req[r].pc = "done" =>
              req[r].response.action_type \in {"click", "text", "none"}
        /\ (req[r].pc = "done" /\ BackendState = "Ready" /\ PipelineFailed(r)) =>
              IsNone(req[r].response)

C1_Witness ==
    \E r \in Requests :
        /\ req[r].pc = "done" /\ BackendState = "Ready"
        /\ ParsedObject(r)
        /\ ObjectOf(r).confidence = Null
        /\ req[r].caught = "TypeError"
        /\ IsNone(req[r].response)

(***************************************************************************)
(* C2.  Every action predict returns is a click, text or none action with  *)
(* confidence in [0, 1], and a none action has confidence exactly 0.0,     *)
(* whatever confidence the model reports.                                  *)
(***************************************************************************)
C2_ConfidenceInUnitInterval ==
    \A r \in Requests :
        req[r].pc = "done" =>
            /\ req[r].response.action_type \in {"click", "text", "none"}
            /\ req[r].response.confidence >= 0
            /\ req[r].response.confidence <= 100
            /\ req[r].response.action_type = "none" => req[r].response.confidence = 0

(***************************************************************************)
(* C3.  Every transient screenshot file on disk belongs to a call that is  *)
(* still inside _real_predict; once a call has returned (on any path) the  *)
(* file it created is gone, and no files remain when no call is running.   *)
(***************************************************************************)
C3_NoTransientFileLeft ==
    /\ \A p \in Paths :
          fs[p].exists =>
              \E r \in Requests :
                  /\ req[r].temp_path = p
                  /\ fs[p].owner = r
                  /\ req[r].pc \in {"save", "generate", "generating", "parse", "finally"}
    /\ \A r \in Requests :
          (req[r].pc \in {"done", "raised"} /\ req[r].temp_path # 0) =>
              ~(fs[req[r].temp_path].exists /\ fs[req[r].temp_path].owner = r)

C3_Witness ==
    \E r1, r2 \in Requests :
        /\ r1 # r2
        /\ req[r1].pc = "done" /\ req[r2].pc = "done"
        /\ Has(r1, "parse") /\ req[r1].caught = "" /\ Has(r1, "unlink")
        /\ req[r2].caught = "OSError" /\ Has(r2, "mkstemp") /\ Has(r2, "unlink")
        /\ \A p \in Paths : ~fs[p].exists

(***************************************************************************)
(* C4.  The backend state never changes.  While it is Unconfigured or      *)
(* LoadFailed every call is answered by the mock generator: no prompt is   *)
(* built, no transient file is created, the model and the parser are never *)
(* invoked.  While it is Ready every call runs the real pipeline.          *)
(***************************************************************************)
MockOnly(r) ==
    /\ req[r].pc \in {"idle", "mock", "done"}
    /\ req[r].events \in {<<>>, <<"mock">>}
    /\ req[r].pc = "done" => req[r].events = <<"mock">>
    /\ ~req[r].prompt.built
    /\ req[r].temp_path = 0
    /\ req[r].output = NoOutput

RealOnly(r) ==
    /\ req[r].pc # "mock"
    /\ ~Has(r, "mock")
    /\ req[r].pc = "done" => (Has(r, "unlink") \/ Has(r, "nounlink"))

\* C4: the state part, mock-only routing unless Ready and real-only routing when Ready.
C4_Routing ==
    /\ BackendState \in {"Unconfigured", "LoadFailed"} =>
          /\ \A r \in Requests : MockOnly(r)
          /\ \A p \in Paths : ~fs[p].exists
    /\ BackendState = "Ready" => \A r \in Requests : RealOnly(r)

\* C4: routing follows the backend state in every state, and no step changes that state.
C4_ModeRouting == [](C4_Routing) /\ [][model' = model /\ model_path' = model_path]_vars

C4_Witness ==
    \E r \in Requests :
        /\ BackendState = "LoadFailed"
        /\ HealthResponse.mock_mode
        /\ req[r].pc = "done"
        /\ req[r].events = <<"mock">>

(***************************************************************************)
(* C5.  As claimed: a parsed object with action_type "click" always gives  *)
(* a Click, with the cursor coordinate on an axis whose member is absent   *)
(* or non-numeric.  (Stated where the confidence member converts, so that  *)
(* only x and y decide.)                                                   *)
(***************************************************************************)
NonNumeric(v) ==
    v.t \in {"null", "list"} \/ (v.t = "str" /\ ~IsDecimalLiteral(v.s))

\* C5 as claimed: a click object always yields a Click, at the cursor where x or y is not a number.
C5_ClickAlwaysClick ==
    \A r \in Requests :
        (/\ ParsedObject(r)
         /\ ObjectOf(r).action_type = Str(S_click)
         /\ FloatConvertible(ObjectOf(r).confidence)) =>
            /\ req[r].response.action_type = "click"
            /\ req[r].response.confidence = ConfidenceOf(ObjectOf(r).confidence)
            /\ (ObjectOf(r).x.t = "absent" \/ NonNumeric(ObjectOf(r).x)) =>
                  req[r].response.x = req[r].cursor_x
            /\ (ObjectOf(r).y.t = "absent" \/ NonNumeric(ObjectOf(r).y)) =>
                  req[r].response.y = req[r].cursor_y

(***************************************************************************)
(* C5, amended.  A parsed object with action_type "click" gives a Click    *)
(* exactly when int() converts x and y (where present) and float()         *)
(* converts confidence (where present).  The Click then carries, per axis, *)
(* the cursor coordinate if the member is absent and otherwise the member  *)
(* converted by int() (a number truncated toward zero, a boolean as 0 or   *)
(* 1, an integer literal read), and the converted confidence.  When a      *)
(* conversion fails (null, a list, a string that is no integer literal)    *)
(* the result is none with confidence 0.0 at the cursor position.          *)
(***************************************************************************)
C5_ClickCoordinates ==
    \A r \in Requests :
        (ParsedObject(r) /\ ObjectOf(r).action_type = Str(S_click)) =>
            IF /\ FloatConvertible(ObjectOf(r).confidence)
               /\ IntConvertible(ObjectOf(r).x)
               /\ IntConvertible(ObjectOf(r).y)
            THEN req[r].response =
                    PredictionResponse("click",
                                       CoordinateOf(ObjectOf(r).x, req[r].cursor_x),
                                       CoordinateOf(ObjectOf(r).y, req[r].cursor_y),
                                       PyNone,
                                       ConfidenceOf(ObjectOf(r).confidence))
            ELSE req[r].response =
                    PredictionResponse("none", req[r].cursor_x, req[r].cursor_y, PyNone, 0)

C5_Witness ==
    \E r \in Requests :
        /\ req[r].pc = "done"
        /\ ParsedObject(r)
        /\ ObjectOf(r).action_type = Str(S_click)
        /\ ObjectOf(r).confidence = Num(80)
        /\ ObjectOf(r).x = Absent
        /\ ObjectOf(r).y = Str(<<"a", "b">>)
        /\ IsNone(req[r].response)

(***************************************************************************)
(* C6.  As claimed: on a parsed object whose action_type is neither        *)
(* "click" nor "text", the parser returns none with confidence 0.0,        *)
(* whatever the confidence member is.                                      *)
(***************************************************************************)
OtherType(r) == ObjectOf(r).action_type \notin {Str(S_click), Str(S_text)}

C7_MockActions ==
    \A r \in Requests :
        Has(r, "mock") =>
            LET a == req[r].response
            IN  /\ a.action_type \in {"click", "text"}
                /\ a.action_type = "click" =>
                      /\ a.x >= 0 /\ a.y >= 0
                      /\ \E dx \in (-OFFSET_MAX)..OFFSET_MAX :
                            a.x = Max(0, req[r].cursor_x + dx)
                      /\ \E dy \in (-OFFSET_MAX)..OFFSET_MAX :
                            a.y = Max(0, req[r].cursor_y + dy)
                      /\ a.confidence >= CLICK_CONF_LO /\ a.confidence <= CLICK_CONF_HI
                      /\ a.text = PyNone
                /\ a.action_type = "text" =>
                      /\ \E i \in 1..Len(MOCK_TEXT_PREDICTIONS) :
                            a.text = MOCK_TEXT_PREDICTIONS[i]
                      /\ a.confidence >= TEXT_CONF_LO /\ a.confidence <= TEXT_CONF_HI
                      /\ a.x = req[r].cursor_x /\ a.y = req[r].cursor_y

C7_Witness ==
    \E r \in Requests :
        /\ req[r].pc = "done" /\ Has(r, "mock")
        /\ req[r].cursor_x = -200
        /\ req[r].response.action_type = "click"
        /\ req[r].response.x = 0
        /\ req[r].response.y > 0

(***************************************************************************)
(* C8.  Calls that hold a transient file at the same time hold different   *)
(* files; while a call's model invocation runs, its file exists and holds  *)
(* the encoding of that call's own image; a file disappears only in the    *)
(* cleanup of the call that created it.                                    *)
(***************************************************************************)
Holding(r) == req[r].temp_path # 0 /\ req[r].pc \in {"save", "generate", "generating", "parse", "finally"}

\* C8: the state part, distinct files and an intact own file during the model call.
C8_NoCollision ==
    /\ \A r1, r2 \in Requests :
          (r1 # r2 /\ Holding(r1) /\ Holding(r2)) => req[r1].temp_path # req[r2].temp_path
    /\ \A r \in Requests :
          req[r].pc = "generating" =>
              /\ fs[req[r].temp_path].exists
              /\ fs[req[r].temp_path].owner = r
              /\ fs[req[r].temp_path].data = Encode(req[r].image)
              /\ req[r].image = req[r].img_bytes

\* C8: the step part, a file is removed only by the cleanup of its creator.
C8_OwnCleanup ==
    \A p \in Paths :
        (fs[p].exists /\ ~fs'[p].exists) =>
            \E r \in Requests :
                /\ req[r].pc = "finally" /\ req'[r].pc \in {"done", "raised"}
                /\ req[r].temp_path = p
                /\ fs[p].owner = r

\* C8: concurrent calls never share, overwrite or remove one another's transient file.
C8_ConcurrentFilesDistinct == [](C8_NoCollision) /\ [][C8_OwnCleanup]_vars

C8_Witness ==
    \E r1, r2 \in Requests :
        /\ r1 # r2
        /\ req[r1].pc = "generating" /\ req[r2].pc = "generating"
        /\ req[r1].image # req[r2].image
        /\ req[r1].temp_path # req[r2].temp_path

(***************************************************************************)
(* C9.  The history embedded in the prompt is "none" for an empty history  *)
(* and otherwise the last min(5, length) entries, in their order, joined   *)
(* with ", "; the prompt embeds the call's cursor_x and cursor_y, and      *)
(* nothing else of the state decides it.                                   *)
(***************************************************************************)
Rendered(history) ==
    LET n == Len(history)
        k == Min(5, n)
        acc[i \in 1..k] ==
            IF i = 1 THEN history[n - k + 1]
            ELSE acc[i - 1] \o ", " \o history[n - k + i]
    IN  IF n = 0 THEN "none" ELSE acc[k]

\* C9: the prompt embeds "none" or the last five entries joined with ", ", and the cursor.
C9_HistoryRendering ==
    \A r \in Requests :
        req[r].prompt.built =>
            /\ req[r].prompt.history = Rendered(req[r].history)
            /\ req[r].prompt.cursor_x = req[r].cursor_x
            /\ req[r].prompt.cursor_y = req[r].cursor_y

C9_Witness ==
    \E r \in Requests :
        /\ req[r].prompt.built
        /\ Len(req[r].history) = 7
        /\ req[r].history[1] = "click" /\ req[r].history[2] = "click"
        /\ req[r].history[3] = "a, b" /\ req[r].history[7] = "click"
        /\ req[r].prompt.history = "a, b, a, b, a, b, a, b, click"

(***************************************************************************)
(* C10.  Within one call of the real pipeline: the model is invoked at     *)
(* most once, and only after the image was saved to the transient file;    *)
(* the parser runs only after the model call returned; the file is removed *)
(* only after the model call has returned or raised (or was never made);   *)
(* a call whose image could not be opened or saved never invokes the model *)
(* and ends in none with confidence 0.0.                                   *)
(***************************************************************************)
C10_StepOrdering ==
    \A r \in Requests :
        /\ Count(r, "generate") <= 1
        /\ Count(r, "parse") <= 1
        /\ After(r, "generate", {"save"})
        /\ After(r, "save", {"mkstemp"})
        /\ After(r, "returned", {"generate"})
        /\ After(r, "raised", {"generate"})
        /\ After(r, "parse", {"returned"})
        /\ Has(r, "generate") => After(r, "unlink", {"returned", "raised"})
        /\ req[r].pc = "generating" => fs[req[r].temp_path].exists
        /\ (req[r].pc = "done" /\ BackendState = "Ready" /\ ~Has(r, "save")) =>
              /\ ~Has(r, "generate")
              /\ IsNone(req[r].response)

C10_Witness ==
    \E r \in Requests :
        /\ req[r].pc = "done"
        /\ req[r].events = <<"open", "mkstemp", "save", "prompt", "generate",
                             "returned", "parse", "unlink">>
        /\ req[r].response.action_type = "click"

====
